---- MODULE Spec2Model ----
(***************************************************************************)
(* Arithmetic expression evaluation: the lexers, the token stream with     *)
(* one slot of pushback, and the infix evaluators.                         *)
(*                                                                         *)
(* A string is a sequence of one-character strings; offsets into it are    *)
(* 0-based as in Python, so the character at offset i is s[i + 1].         *)
(* A float is a normalised fraction <<n, d>> with d > 0; arithmetic on it  *)
(* is exact.  <<0, 0>> (Unrepresented) stands for every result of float    *)
(* arithmetic this model does not compute: a numerator or denominator      *)
(* beyond MaxMag, an irrational or complex power.  It is absorbing, and no *)
(* property below draws a conclusion from it.                              *)
(***************************************************************************)
EXTENDS Integers, Sequences, FiniteSets, TLC

VARIABLES expression, stream, out, stopped, result, values, callee

vars == <<expression, stream, out, stopped, result, values, callee>>

(***************************************************************************)
(* Bounds of the model.                                                    *)
(***************************************************************************)
\* longest expression, in characters, of the exhaustive input set
MaxLen == 3
\* most binary operators in an operand/operator chain of the input set
MaxOps == 3
\* largest numerator or denominator of a float the model computes
MaxMag == 10000

(***************************************************************************)
(* Characters.                                                             *)
(***************************************************************************)
DigitChars == <<"0", "1", "2", "3", "4", "5", "6", "7", "8", "9">>

IsDigit(c) == \E k \in 1..10 : DigitChars[k] = c

DigitVal(c) == (CHOOSE k \in 1..10 : DigitChars[k] = c) - 1

IsSign(c) == c \in {"-", "+"}

IsSpace(c) == c \in {" ", "\t", "\n"}

\* text[start:end]
Slice(s, start, end) == SubSeq(s, start + 1, end)

(***************************************************************************)
(* Floats.                                                                 *)
(***************************************************************************)
Unrepresented == <<0, 0>>

Abs(n) == IF n < 0 THEN -n ELSE n

RECURSIVE GCD(_, _)
GCD(a, b) == IF b = 0 THEN a ELSE GCD(b, a % b)

Float(n, d) ==
    LET reduced(nn, dd) ==
            IF Abs(nn) > MaxMag \/ dd > MaxMag THEN Unrepresented ELSE <<nn, dd>>
        divided(g) == reduced((IF d < 0 THEN -n ELSE n) \div g, Abs(d) \div g)
    IN IF d = 0 THEN Unrepresented ELSE divided(GCD(Abs(n), Abs(d)))

IsRepresented(a) == a[2] # 0

Add(a, b) ==
    IF ~IsRepresented(a) \/ ~IsRepresented(b) THEN Unrepresented
    ELSE Float(a[1] * b[2] + b[1] * a[2], a[2] * b[2])

Neg(a) == IF ~IsRepresented(a) THEN Unrepresented ELSE <<-a[1], a[2]>>

Sub(a, b) == Add(a, Neg(b))

Mul(a, b) ==
    IF ~IsRepresented(a) \/ ~IsRepresented(b) THEN Unrepresented
    ELSE Float(a[1] * b[1], a[2] * b[2])

\* a / b for b # 0
Quot(a, b) ==
    IF ~IsRepresented(a) \/ ~IsRepresented(b) THEN Unrepresented
    ELSE Float(a[1] * b[2], a[2] * b[1])

IsZero(a) == IsRepresented(a) /\ a[1] = 0

\* a ** e for a natural number e, by squaring
RECURSIVE PowNat(_, _)
PowNat(a, e) ==
    LET odd(sq) == IF e % 2 = 1 THEN Mul(sq, a) ELSE sq
        squared(h) == odd(Mul(h, h))
    IN IF e = 0 THEN <<1, 1>> ELSE squared(PowNat(a, e \div 2))

\* a ** b where it does not raise: an integer exponent is computed, any other
\* exponent is computed only for the bases 0 and 1
Pow(a, b) ==
    LET inverted(p) == IF b[1] >= 0 THEN p ELSE Quot(<<1, 1>>, p)
    IN IF ~IsRepresented(a) \/ ~IsRepresented(b) THEN Unrepresented
       ELSE IF b[2] = 1 THEN inverted(PowNat(a, Abs(b[1])))
       ELSE IF a = <<1, 1>> THEN <<1, 1>>
       ELSE IF IsZero(a) THEN <<0, 1>>
       ELSE Unrepresented

\* 0.0 raised to a negative power raises ZeroDivisionError
PowRaises(a, b) == IsZero(a) /\ IsRepresented(b) /\ b[1] < 0

(***************************************************************************)
(* FLOAT_PATTERN and float().                                              *)
(***************************************************************************)
\* the offset after the longest run of digits starting at offset i
DigitsEnd(s, i) ==
    CHOOSE j \in i..Len(s) :
        /\ \A k \in i..(j - 1) : IsDigit(s[k + 1])
        /\ (j = Len(s) \/ ~IsDigit(s[j + 1]))

\* the offset after the optional exponent ([eE][-+]?\d+)? tried at offset m
ExponentEnd(s, m) ==
    LET digits(a, b) == IF b > a THEN b ELSE m
        signed(a) == digits(a, DigitsEnd(s, a))
    IN IF m < Len(s) /\ s[m + 1] \in {"e", "E"}
       THEN signed(IF m + 1 < Len(s) /\ IsSign(s[m + 2]) THEN m + 2 ELSE m + 1)
       ELSE m

\* the end of the match of [-+]?\d*\.?\d+([eE][-+]?\d+)? at offset i, or -1
FLOAT_PATTERN(s, i) ==
    LET digits(a, b) ==
            IF b + 1 < Len(s) /\ s[b + 1] = "." /\ IsDigit(s[b + 2])
            THEN ExponentEnd(s, DigitsEnd(s, b + 1))
            ELSE IF b > a THEN ExponentEnd(s, b)
            ELSE -1
        signed(a) == digits(a, DigitsEnd(s, a))
    IN signed(IF IsSign(s[i + 1]) THEN i + 1 ELSE i)

\* p * 10 ** k, or 0 when it is beyond the magnitudes the model computes
RECURSIVE Pow10(_, _)
Pow10(p, k) ==
    IF k = 0 THEN p ELSE IF p > MaxMag THEN 0 ELSE Pow10(10 * p, k - 1)

\* the natural number written by a run of digits, exact up to MaxMag
RECURSIVE DigitsVal(_)
DigitsVal(ds) ==
    LET shifted(n) == IF n > MaxMag THEN n ELSE 10 * n + DigitVal(ds[Len(ds)])
    IN IF ds = <<>> THEN 0 ELSE shifted(DigitsVal(SubSeq(ds, 1, Len(ds) - 1)))

\* float(text) for a text FLOAT_PATTERN matches
float(text) ==
    LET scaled(n, e, p) ==
            IF n = 0 THEN <<0, 1>>
            ELSE IF n > MaxMag \/ p = 0 THEN Unrepresented
            ELSE IF e >= 0 THEN Float(n * p, 1)
            ELSE Float(n, p)
        shifted(n, e) == scaled(n, e, Pow10(1, Abs(e)))
        exponentOf(c) ==
            IF c = Len(text) THEN 0
            ELSE IF text[c + 2] = "-" THEN -DigitsVal(Slice(text, c + 2, Len(text)))
            ELSE IF text[c + 2] = "+" THEN DigitsVal(Slice(text, c + 2, Len(text)))
            ELSE DigitsVal(Slice(text, c + 1, Len(text)))
        parts(a, b, c) ==
            IF c > b
            THEN shifted(DigitsVal(Slice(text, a, b) \o Slice(text, b + 1, c)),
                         exponentOf(c) - (c - b - 1))
            ELSE shifted(DigitsVal(Slice(text, a, b)), exponentOf(c))
        whole(a, b) ==
            parts(a, b, IF b < Len(text) /\ text[b + 1] = "."
                        THEN DigitsEnd(text, b + 1) ELSE b)
        unsigned(a) == whole(a, DigitsEnd(text, a))
        sign(v) == IF text[1] = "-" THEN Neg(v) ELSE v
    IN sign(unsigned(IF IsSign(text[1]) THEN 1 ELSE 0))

(***************************************************************************)
(* Tokens.                                                                 *)
(***************************************************************************)
\* a token: its class, its value (sym for a symbol or an invalid text, num
\* for a number) and its span [start, end)
Token(kind, sym, num, start, end) ==
    [kind |-> kind, sym |-> sym, num |-> num, start |-> start, end |-> end]

Number(value, start, end) == Token("Number", <<>>, value, start, end)

Operator(value, start, end) == Token("Operator", value, <<0, 1>>, start, end)

Parenthesis(value, start, end) == Token("Parenthesis", value, <<0, 1>>, start, end)

Invalid(value, start, end) == Token("Invalid", value, <<0, 1>>, start, end)

\* Python's None, where a token is expected
None == Token("None", <<>>, <<0, 1>>, 0, 0)

(***************************************************************************)
(* The infix lexer: calculator.tokenizer.Tokenizer.                        *)
(***************************************************************************)
OPERATORS == {<<"+">>, <<"-">>, <<"*">>, <<"/">>, <<"*", "*">>, <<"^">>}

PARENTHESES == {<<"(">>, <<")">>}

\* the end of the match of \*\*|[+\-*/\^] at offset i, or -1
OperatorEnd(s, i) ==
    IF s[i + 1] = "*" /\ i + 1 < Len(s) /\ s[i + 2] = "*" THEN i + 2
    ELSE IF s[i + 1] \in {"+", "-", "*", "/", "^"} THEN i + 1
    ELSE -1

\* the end of the match of [()] at offset i, or -1
ParenthesisEnd(s, i) == IF s[i + 1] \in {"(", ")"} THEN i + 1 ELSE -1

\* the end of the match of \S, one character, at offset i
InvalidEnd_one(s, i) == i + 1

\* the end of the match of \S+ at offset i, a non-whitespace character
InvalidEnd(s, i) ==
    CHOOSE j \in (i + 1)..Len(s) :
        /\ \A k \in i..(j - 1) : ~IsSpace(s[k + 1])
        /\ (j = Len(s) \/ IsSpace(s[j + 1]))

NoMatch == [typ |-> "", start |-> -1, end |-> -1]

\* GRAMMAR tried at the non-whitespace offset i: the first alternative that
\* matches, in the order number, operator, parenthesis, invalid
GRAMMAR(s, i) ==
    LET match(typ, end) == [typ |-> typ, start |-> i, end |-> end]
        invalid(end) == match("invalid", end)
        parenthesis(end) ==
            IF end >= 0 THEN match("parenthesis", end) ELSE invalid(InvalidEnd(s, i))
        operator(end) ==
            IF end >= 0 THEN match("operator", end)
            ELSE parenthesis(ParenthesisEnd(s, i))
        number(end) ==
            IF end >= 0 THEN match("number", end) ELSE operator(OperatorEnd(s, i))
    IN number(FLOAT_PATTERN(s, i))

\* the next match finditer delivers when its search resumes at offset i:
\* no alternative matches at a whitespace character
finditer(s, i) ==
    IF \A k \in i..(Len(s) - 1) : IsSpace(s[k + 1]) THEN NoMatch
    ELSE GRAMMAR(s, CHOOSE j \in i..(Len(s) - 1) :
                        ~IsSpace(s[j + 1]) /\ \A k \in i..(j - 1) : IsSpace(s[k + 1]))

\* the generator _tokenize(expression) before its first resumption: where
\* finditer resumes, previousType, and the Number still to yield after the
\* Operator of a split signed number
Generator == [at |-> 0, previousType |-> "", pending |-> None]

\* the token a match yields when it is not split
Tokenizer_yield(text, m) ==
    CASE m.typ = "number" -> Number(float(text), m.start, m.end)
      [] m.typ = "operator" /\ text \in OPERATORS -> Operator(text, m.start, m.end)
      [] m.typ = "parenthesis" /\ text \in PARENTHESES -> Parenthesis(text, m.start, m.end)
      [] OTHER -> Invalid(text, m.start, m.end)

\* a split of the numbers signed "-" only
Tokenizer_splits_minus(previousType, text, m) ==
    m.typ = "number" /\ previousType = "number" /\ text[1] = "-"

\* no split at all
Tokenizer_splits_never(previousType, text, m) == FALSE

\* whether the match is a signed number to split into Operator, Number
Tokenizer_splits(previousType, text, m) ==
    m.typ = "number" /\ previousType = "number" /\ text[1] \in {"-", "+"}

\* a generator whose split Number keeps the span of the whole signed match
Tokenizer_tokenize_overlapping(s, g) ==
    LET resumed(m, text) ==
            IF m = NoMatch
            THEN [tok |-> None, g |-> [g EXCEPT !.at = Len(s)]]
            ELSE IF Tokenizer_splits(g.previousType, text, m)
            THEN [tok |-> Operator(<<text[1]>>, m.start, m.start + 1),
                  g |-> [g EXCEPT !.at = m.end, !.previousType = m.typ,
                                  !.pending = Number(float(Tail(text)), m.start,
                                                     m.end)]]
            ELSE [tok |-> Tokenizer_yield(text, m),
                  g |-> [g EXCEPT !.at = m.end, !.previousType = m.typ]]
        matched(m) == resumed(m, Slice(s, m.start, m.end))
    IN IF g.pending # None
       THEN [tok |-> g.pending, g |-> [g EXCEPT !.pending = None]]
       ELSE matched(finditer(s, g.at))

\* one resumption of the generator Tokenizer._tokenize(s): the token it
\* yields (None: StopIteration) and the generator afterwards
Tokenizer_tokenize(s, g) ==
    LET resumed(m, text) ==
            IF m = NoMatch
            THEN [tok |-> None, g |-> [g EXCEPT !.at = Len(s)]]
            ELSE IF Tokenizer_splits(g.previousType, text, m)
            THEN [tok |-> Operator(<<text[1]>>, m.start, m.start + 1),
                  g |-> [g EXCEPT !.at = m.end, !.previousType = m.typ,
                                  !.pending = Number(float(Tail(text)), m.start + 1,
                                                     m.end)]]
            ELSE [tok |-> Tokenizer_yield(text, m),
                  g |-> [g EXCEPT !.at = m.end, !.previousType = m.typ]]
        matched(m) == resumed(m, Slice(s, m.start, m.end))
    IN IF g.pending # None
       THEN [tok |-> g.pending, g |-> [g EXCEPT !.pending = None]]
       ELSE matched(finditer(s, g.at))

\* the generator object self._tokenize(s), resumed from g: the tokens its
\* remaining resumptions yield, in order.  The generator reads nothing but
\* the string it was created with, so the object is what it will yield
RECURSIVE Tokenizer_tokens(_, _)
Tokenizer_tokens(s, g) ==
    LET rest(r) ==
            IF r.tok = None THEN <<>> ELSE <<r.tok>> \o Tokenizer_tokens(s, r.g)
    IN rest(Tokenizer_tokenize(s, g))

\* a slot that the class holds: a new stream finds what the stream before it
\* left there
Tokenizer_lookahead_shared == stream.lookahead

\* _lookahead of a stream on which reinsert was never called: the attribute
\* of the class, which reinsert never assigns (it assigns the instance's)
Tokenizer_lookahead == None

\* Tokenizer(expression): the generator and the empty pushback slot
Tokenizer(s) ==
    [expr |-> s, tokens |-> Tokenizer_tokens(s, Generator),
     lookahead |-> Tokenizer_lookahead]

\* a __next__ that returns the pushed-back token without emptying the slot
Tokenizer_next_keeps(st) ==
    IF st.lookahead # None
    THEN [tok |-> st.lookahead, st |-> st]
    ELSE IF st.tokens = <<>> THEN [tok |-> None, st |-> st]
    ELSE [tok |-> Head(st.tokens), st |-> [st EXCEPT !.tokens = Tail(@)]]

\* Tokenizer.__next__: the token returned (None: StopIteration) and the
\* stream afterwards
Tokenizer_next(st) ==
    IF st.lookahead # None
    THEN [tok |-> st.lookahead, st |-> [st EXCEPT !.lookahead = None]]
    ELSE IF st.tokens = <<>> THEN [tok |-> None, st |-> st]
    ELSE [tok |-> Head(st.tokens), st |-> [st EXCEPT !.tokens = Tail(@)]]

\* a reinsert that replaces the token already buffered
Tokenizer_reinsert_overwrites(st, token) ==
    [err |-> "ok", tok |-> None, st |-> [st EXCEPT !.lookahead = token]]

\* Tokenizer.reinsert: raises TokenError carrying the buffered token when
\* the slot is occupied
Tokenizer_reinsert(st, token) ==
    IF st.lookahead # None
    THEN [err |-> "TokenError", tok |-> st.lookahead, st |-> st]
    ELSE [err |-> "ok", tok |-> None, st |-> [st EXCEPT !.lookahead = token]]

\* list(Tokenizer(s)): every token of the stream, in order
RECURSIVE Drain(_)
Drain(st) ==
    LET rest(r) == IF r.tok = None THEN <<>> ELSE <<r.tok>> \o Drain(r.st)
    IN rest(Tokenizer_next(st))

Tokens(s) == Drain(Tokenizer(s))

(***************************************************************************)
(* The package infix evaluator: calculator.evaluate.                       *)
(*                                                                         *)
(* A context c is the token stream together with the log of the calls made *)
(* on it: every next(tokens, None) with the place that made it and the     *)
(* token it returned, and every reinsert with the token given and whether  *)
(* the slot was occupied.  A function returns the context it leaves, err   *)
(* ("ok", or the exception raised, with its token in tok) and its value v. *)
(* depth counts the calls of _expression, _term, _factor and _base that    *)
(* are active, peak the most that were active at one moment.               *)
(***************************************************************************)
Context(st) == [st |-> st, log |-> <<>>, depth |-> 0, peak |-> 0]

\* a function of the evaluator is called: one more call is active
Enter(c) ==
    LET entered(d) == [c EXCEPT !.depth = d, !.peak = IF d > @ THEN d ELSE @]
    IN entered(c.depth + 1)

\* the call ends, by return or by an exception: r is what it leaves
Exit(r) == [r EXCEPT !.c.depth = @ - 1]

\* next(tokens, None) made at `site`
Read(c, site) ==
    LET returned(r) ==
            [tok |-> r.tok,
             c |-> [c EXCEPT !.st = r.st,
                             !.log = Append(@, [op |-> "next", site |-> site,
                                                tok |-> r.tok, full |-> FALSE])]]
    IN returned(Tokenizer_next(c.st))

\* tokens.reinsert(token) made at `site`
Unread(c, site, token) ==
    LET returned(r) ==
            [err |-> r.err, tok |-> r.tok,
             c |-> [c EXCEPT !.st = r.st,
                             !.log = Append(@, [op |-> "reinsert", site |-> site,
                                                tok |-> token,
                                                full |-> c.st.lookahead # None])]]
    IN returned(Tokenizer_reinsert(c.st, token))

Return(c, v) == [c |-> c, err |-> "ok", tok |-> None, v |-> v]

Raise(c, err, tok) == [c |-> c, err |-> err, tok |-> tok, v |-> <<0, 1>>]

\* case Operator(sym)
IsOperator(tok, sym) == tok.kind = "Operator" /\ tok.sym = sym

\* case Parenthesis(sym)
IsParenthesis(tok, sym) == tok.kind = "Parenthesis" /\ tok.sym = sym

\* left / right
Divide(c, left, right) ==
    IF IsZero(right) THEN Raise(c, "ZeroDivisionError", None)
    ELSE Return(c, Quot(left, right))

\* left ** right; a power the model does not compute ends the call with the
\* outcome "Unrepresented" (Python returns a float or raises OverflowError)
Power(c, left, right) ==
    LET computed(v) ==
            IF ~IsRepresented(v) THEN Raise(c, "Unrepresented", None) ELSE Return(c, v)
    IN IF PowRaises(left, right) THEN Raise(c, "ZeroDivisionError", None)
       ELSE computed(Pow(left, right))

\* a level that pushes the peeked token back twice
PushBack_twice(c, site, token, v) ==
    LET again(u) == IF u.err # "ok" THEN Raise(u.c, u.err, u.tok) ELSE Return(u.c, v)
        reinserted(u) ==
            IF u.err # "ok" THEN Raise(u.c, u.err, u.tok)
            ELSE again(Unread(u.c, site, token))
    IN reinserted(Unread(c, site, token))

\* the peeked token is not this level's: push it back and return the value
PushBack(c, site, token, v) ==
    LET reinserted(u) == IF u.err # "ok" THEN Raise(u.c, u.err, u.tok) ELSE Return(u.c, v)
    IN reinserted(Unread(c, site, token))

RECURSIVE _expression(_), _term(_), _factor(_), _base(_)

\* a unary sign, "+" as well as "-"
IsUnarySign(tok) == IsOperator(tok, <<"-">>) \/ IsOperator(tok, <<"+">>)

\* case Operator("-") of _base
IsUnaryMinus(tok) == IsOperator(tok, <<"-">>)

\* a unary minus that takes only the factor that follows it
_base_negated_factor(c) ==
    LET negated(e) == IF e.err # "ok" THEN e ELSE Return(e.c, Neg(e.v))
    IN negated(_factor(c))

\* return -_expression(tokens)
_base_negated(c) ==
    LET negated(e) == IF e.err # "ok" THEN e ELSE Return(e.c, Neg(e.v))
    IN negated(_expression(c))

\* a parenthesis that the end of the input closes as well
_base_closing_lenient(e) ==
    LET match(q) ==
            CASE IsParenthesis(q.tok, <<")">>) \/ q.tok = None -> Return(q.c, e.v)
              [] OTHER -> Raise(q.c, "UnexpectedTokenError", q.tok)
    IN match(Read(e.c, "_base)"))

\* the match on the token read after "(" expression; e is what _expression
\* returned
_base_closing(e) ==
    LET match(q) ==
            CASE IsParenthesis(q.tok, <<")">>) -> Return(q.c, e.v)
              [] q.tok = None -> Raise(q.c, "UnexpectedEndOfExpressionError", None)
              [] OTHER -> Raise(q.c, "UnexpectedTokenError", q.tok)
    IN match(Read(e.c, "_base)"))

_base(c) ==
    LET value(e) == IF e.err # "ok" THEN e ELSE _base_closing(e)
        match(r) ==
            CASE r.tok.kind = "Number" -> Return(r.c, r.tok.num)
              [] IsUnaryMinus(r.tok) -> _base_negated(r.c)
              [] IsParenthesis(r.tok, <<"(">>) -> value(_expression(r.c))
              [] r.tok = None -> Raise(r.c, "UnexpectedEndOfExpressionError", None)
              [] OTHER -> Raise(r.c, "UnexpectedTokenError", r.tok)
    IN Exit(match(Read(Enter(c), "_base")))

\* an exponent that is a base, not a factor: base ** _base(tokens)
_factor_base_exponent(c) ==
    LET power(base, f) == IF f.err # "ok" THEN f ELSE Power(f.c, base.v, f.v)
        match(base, r) ==
            CASE IsOperator(r.tok, <<"*", "*">>) \/ IsOperator(r.tok, <<"^">>) ->
                   power(base, _base(r.c))
              [] r.tok = None -> Return(r.c, base.v)
              [] OTHER -> PushBack(r.c, "_factor", r.tok, base.v)
        peek(base) == IF base.err # "ok" THEN base ELSE match(base, Read(base.c, "_factor"))
    IN Exit(peek(_base(Enter(c))))

_factor(c) ==
    LET power(base, f) == IF f.err # "ok" THEN f ELSE Power(f.c, base.v, f.v)
        match(base, r) ==
            CASE IsOperator(r.tok, <<"*", "*">>) \/ IsOperator(r.tok, <<"^">>) ->
                   power(base, _factor(r.c))
              [] r.tok = None -> Return(r.c, base.v)
              [] OTHER -> PushBack(r.c, "_factor", r.tok, base.v)
        peek(base) == IF base.err # "ok" THEN base ELSE match(base, Read(base.c, "_factor"))
    IN Exit(peek(_base(Enter(c))))

_term(c) ==
    LET times(factor, g) ==
            IF g.err # "ok" THEN g ELSE Return(g.c, Mul(factor.v, g.v))
        over(factor, g) == IF g.err # "ok" THEN g ELSE Divide(g.c, factor.v, g.v)
        match(factor, r) ==
            CASE IsOperator(r.tok, <<"*">>) -> times(factor, _factor(r.c))
              [] IsOperator(r.tok, <<"/">>) -> over(factor, _factor(r.c))
              [] r.tok = None -> Return(r.c, factor.v)
              [] OTHER -> PushBack(r.c, "_term", r.tok, factor.v)
        peek(factor) ==
            IF factor.err # "ok" THEN factor ELSE match(factor, Read(factor.c, "_term"))
    IN Exit(peek(_factor(Enter(c))))

_expression(c) ==
    LET plus(term, e) == IF e.err # "ok" THEN e ELSE Return(e.c, Add(term.v, e.v))
        minus(term, e) == IF e.err # "ok" THEN e ELSE Return(e.c, Sub(term.v, e.v))
        match(term, r) ==
            CASE IsOperator(r.tok, <<"+">>) -> plus(term, _expression(r.c))
              [] IsOperator(r.tok, <<"-">>) -> minus(term, _expression(r.c))
              [] r.tok = None -> Return(r.c, term.v)
              [] OTHER -> PushBack(r.c, "_expression", r.tok, term.v)
        peek(term) ==
            IF term.err # "ok" THEN term ELSE match(term, Read(term.c, "_expression"))
    IN Exit(peek(_term(Enter(c))))

\* the exceptions `except TokenError` catches
TokenErrors == {"TokenError", "InvalidTokenError", "UnexpectedTokenError"}

\* what a call of evaluate leaves: the value returned (kind "value") or the
\* exception raised (kind) with the token it carries, whether the call
\* printed, the log of its stream calls, the stream as the call left it and
\* the most calls of the evaluator's functions that were active at once
Outcome(kind, v, tok, printed, c) ==
    [kind |-> kind, v |-> v, tok |-> tok, printed |-> printed, log |-> c.log,
     st |-> c.st, peak |-> c.peak]

\* an evaluate that returns the value of the expression it parsed whatever
\* follows it
evaluate_lenient(s) ==
    LET match(e, r) == Outcome("value", e.v, None, FALSE, r.c)
        parsed(e) ==
            IF e.err # "ok" THEN Outcome(e.err, e.v, e.tok, e.err \in TokenErrors, e.c)
            ELSE match(e, Read(e.c, "evaluate"))
    IN parsed(_expression(Context(Tokenizer(s))))

\* an evaluate whose match has no case Invalid(): every leftover token
\* raises UnexpectedTokenError
evaluate_unclassified(s) ==
    LET match(e, r) ==
            CASE r.tok = None -> Outcome("value", e.v, None, FALSE, r.c)
              [] OTHER -> Outcome("UnexpectedTokenError", <<0, 1>>, r.tok, TRUE, r.c)
        parsed(e) ==
            IF e.err # "ok" THEN Outcome(e.err, e.v, e.tok, e.err \in TokenErrors, e.c)
            ELSE match(e, Read(e.c, "evaluate"))
    IN parsed(_expression(Context(Tokenizer(s))))

evaluate(s) ==
    LET match(e, r) ==
            CASE r.tok = None -> Outcome("value", e.v, None, FALSE, r.c)
              [] r.tok.kind = "Invalid" ->
                   Outcome("InvalidTokenError", <<0, 1>>, r.tok, TRUE, r.c)
              [] OTHER -> Outcome("UnexpectedTokenError", <<0, 1>>, r.tok, TRUE, r.c)
        parsed(e) ==
            IF e.err # "ok" THEN Outcome(e.err, e.v, e.tok, e.err \in TokenErrors, e.c)
            ELSE match(e, Read(e.c, "evaluate"))
    IN parsed(_expression(Context(Tokenizer(s))))

(***************************************************************************)
(* The strict lexer and stream of tokenizer.py: TokenStream.               *)
(***************************************************************************)

\* a strict generator that yields the Invalid token as the package's does
TokenStream_tokenize_tolerant(s, g) ==
    LET resumed(r) == [err |-> "ok", tok |-> r.tok, g |-> r.g]
    IN resumed(Tokenizer_tokenize(s, g))

\* one resumption of the generator TokenStream._tokenize(s): as the infix
\* lexer, except that an invalid match raises InvalidTokenError carrying
\* the Invalid token, which ends the generator
TokenStream_tokenize(s, g) ==
    LET resumed(r) ==
            IF r.tok.kind = "Invalid"
            THEN [err |-> "InvalidTokenError", tok |-> r.tok,
                  g |-> [r.g EXCEPT !.at = Len(s)]]
            ELSE [err |-> "ok", tok |-> r.tok, g |-> r.g]
    IN resumed(Tokenizer_tokenize(s, g))

\* the generator object self._tokenize(s), resumed from g: what its
\* remaining resumptions do, in order, each a token yielded (err "ok") or
\* the exception raised, which is its last
RECURSIVE TokenStream_tokens(_, _)
TokenStream_tokens(s, g) ==
    LET rest(r) ==
            IF r.tok = None THEN <<>>
            ELSE IF r.err # "ok" THEN <<[err |-> r.err, tok |-> r.tok]>>
            ELSE <<[err |-> "ok", tok |-> r.tok]>> \o TokenStream_tokens(s, r.g)
    IN rest(TokenStream_tokenize(s, g))

\* TokenStream(expression)
TokenStream(s) ==
    [expr |-> s, tokens |-> TokenStream_tokens(s, Generator), lookahead |-> None]

\* TokenStream.__next__
TokenStream_next(st) ==
    IF st.lookahead # None
    THEN [err |-> "ok", tok |-> st.lookahead, st |-> [st EXCEPT !.lookahead = None]]
    ELSE IF st.tokens = <<>> THEN [err |-> "ok", tok |-> None, st |-> st]
    ELSE [err |-> Head(st.tokens).err, tok |-> Head(st.tokens).tok,
          st |-> [st EXCEPT !.tokens = Tail(@)]]

\* TokenStream.reinsert
TokenStream_reinsert(st, token) ==
    IF st.lookahead # None
    THEN [err |-> "TokenError", tok |-> st.lookahead, st |-> st]
    ELSE [err |-> "ok", tok |-> None, st |-> [st EXCEPT !.lookahead = token]]

(***************************************************************************)
(* The accumulator-style infix evaluator of calculator.py.  An             *)
(* intermediate is [given |-> whether the argument was passed, v |-> it].  *)
(***************************************************************************)
\* next(tokens, None) made at `site`; err is the exception next raises
StrictRead(c, site) ==
    LET returned(r) ==
            [err |-> r.err, tok |-> r.tok,
             c |-> [c EXCEPT !.st = r.st,
                             !.log = Append(@, [op |-> "next", site |-> site,
                                                tok |-> r.tok, full |-> FALSE])]]
    IN returned(TokenStream_next(c.st))

\* tokens.reinsert(token) made at `site`, then return v
StrictPushBack(c, site, token, v) ==
    LET logged(r, c2) == IF r.err # "ok" THEN Raise(c2, r.err, r.tok) ELSE Return(c2, v)
        reinserted(r) ==
            logged(r, [c EXCEPT !.st = r.st,
                                !.log = Append(@, [op |-> "reinsert", site |-> site,
                                                   tok |-> token,
                                                   full |-> c.st.lookahead # None])])
    IN reinserted(TokenStream_reinsert(c.st, token))

NoIntermediate == [given |-> FALSE, v |-> <<0, 1>>]

Intermediate(v) == [given |-> TRUE, v |-> v]

RECURSIVE calculator_expression(_, _), calculator_term(_, _)
RECURSIVE calculator_factor(_, _), calculator_base(_)

calculator_base(c) ==
    LET negated(e) == IF e.err # "ok" THEN e ELSE Return(e.c, Neg(e.v))
        closing(e, q) ==
            IF q.err # "ok" THEN Raise(q.c, q.err, q.tok)
            ELSE CASE IsParenthesis(q.tok, <<")">>) -> Return(q.c, e.v)
                   [] q.tok = None -> Raise(q.c, "UnexpectedEndOfExpressionError", None)
                   [] OTHER -> Raise(q.c, "UnexpectedTokenError", q.tok)
        value(e) == IF e.err # "ok" THEN e ELSE closing(e, StrictRead(e.c, "_base)"))
        match(r) ==
            IF r.err # "ok" THEN Raise(r.c, r.err, r.tok)
            ELSE CASE r.tok.kind = "Number" -> Return(r.c, r.tok.num)
                   [] IsOperator(r.tok, <<"-">>) ->
                        negated(calculator_expression(r.c, NoIntermediate))
                   [] IsParenthesis(r.tok, <<"(">>) ->
                        value(calculator_expression(r.c, NoIntermediate))
                   [] r.tok = None -> Raise(r.c, "UnexpectedEndOfExpressionError", None)
                   [] OTHER -> Raise(r.c, "UnexpectedTokenError", r.tok)
    IN Exit(match(StrictRead(Enter(c), "_base")))

calculator_factor(c, intermediate) ==
    LET power(base, f) == IF f.err # "ok" THEN f ELSE Power(f.c, base.v, f.v)
        match(base, r) ==
            IF r.err # "ok" THEN Raise(r.c, r.err, r.tok)
            ELSE CASE IsOperator(r.tok, <<"*", "*">>) \/ IsOperator(r.tok, <<"^">>) ->
                        power(base, calculator_factor(r.c, NoIntermediate))
                   [] r.tok = None -> Return(r.c, base.v)
                   [] OTHER -> StrictPushBack(r.c, "_factor", r.tok, base.v)
        peek(base) ==
            IF base.err # "ok" THEN base ELSE match(base, StrictRead(base.c, "_factor"))
        called(d) ==
            peek(IF intermediate.given THEN Return(d, intermediate.v)
                 ELSE calculator_base(d))
    IN Exit(called(Enter(c)))

calculator_term(c, intermediate) ==
    LET times(left, g) ==
            IF g.err # "ok" THEN g
            ELSE calculator_term(g.c, Intermediate(Mul(left.v, g.v)))
        quotient(d) ==
            IF d.err # "ok" THEN d ELSE calculator_term(d.c, Intermediate(d.v))
        over(left, g) ==
            IF g.err # "ok" THEN g ELSE quotient(Divide(g.c, left.v, g.v))
        match(left, r) ==
            IF r.err # "ok" THEN Raise(r.c, r.err, r.tok)
            ELSE CASE IsOperator(r.tok, <<"*">>) ->
                        times(left, calculator_factor(r.c, NoIntermediate))
                   [] IsOperator(r.tok, <<"/">>) ->
                        over(left, calculator_factor(r.c, NoIntermediate))
                   [] r.tok = None -> Return(r.c, left.v)
                   [] OTHER -> StrictPushBack(r.c, "_term", r.tok, left.v)
        peek(left) ==
            IF left.err # "ok" THEN left ELSE match(left, StrictRead(left.c, "_term"))
        called(d) ==
            peek(IF intermediate.given THEN Return(d, intermediate.v)
                 ELSE calculator_factor(d, NoIntermediate))
    IN Exit(called(Enter(c)))

\* an expression that recurses for its right operand instead of accumulating
calculator_expression_right(c, intermediate) ==
    LET plus(left, u) == IF u.err # "ok" THEN u ELSE Return(u.c, Add(left.v, u.v))
        minus(left, u) == IF u.err # "ok" THEN u ELSE Return(u.c, Sub(left.v, u.v))
        match(left, r) ==
            IF r.err # "ok" THEN Raise(r.c, r.err, r.tok)
            ELSE CASE IsOperator(r.tok, <<"+">>) ->
                        plus(left, calculator_expression(r.c, NoIntermediate))
                   [] IsOperator(r.tok, <<"-">>) ->
                        minus(left, calculator_expression(r.c, NoIntermediate))
                   [] r.tok = None -> Return(r.c, left.v)
                   [] OTHER -> StrictPushBack(r.c, "_expression", r.tok, left.v)
        peek(left) ==
            IF left.err # "ok" THEN left
            ELSE match(left, StrictRead(left.c, "_expression"))
        called(d) ==
            peek(IF intermediate.given THEN Return(d, intermediate.v)
                 ELSE calculator_term(d, NoIntermediate))
    IN Exit(called(Enter(c)))

calculator_expression(c, intermediate) ==
    LET plus(left, u) ==
            IF u.err # "ok" THEN u
            ELSE calculator_expression(u.c, Intermediate(Add(left.v, u.v)))
        minus(left, u) ==
            IF u.err # "ok" THEN u
            ELSE calculator_expression(u.c, Intermediate(Sub(left.v, u.v)))
        match(left, r) ==
            IF r.err # "ok" THEN Raise(r.c, r.err, r.tok)
            ELSE CASE IsOperator(r.tok, <<"+">>) ->
                        plus(left, calculator_term(r.c, NoIntermediate))
                   [] IsOperator(r.tok, <<"-">>) ->
                        minus(left, calculator_term(r.c, NoIntermediate))
                   [] r.tok = None -> Return(r.c, left.v)
                   [] OTHER -> StrictPushBack(r.c, "_expression", r.tok, left.v)
        peek(left) ==
            IF left.err # "ok" THEN left
            ELSE match(left, StrictRead(left.c, "_expression"))
        called(d) ==
            peek(IF intermediate.given THEN Return(d, intermediate.v)
                 ELSE calculator_term(d, NoIntermediate))
    IN Exit(called(Enter(c)))

\* calculator.py's evaluate: `except TokenError` catches InvalidTokenError
\* and TokenError; tokenizer.py's UnexpectedTokenError is a plain ValueError
calculator_evaluate(s) ==
    LET match(e, r) ==
            IF r.err # "ok" THEN Outcome(r.err, <<0, 1>>, r.tok, TRUE, r.c)
            ELSE IF r.tok = None THEN Outcome("value", e.v, None, FALSE, r.c)
            ELSE Outcome("UnexpectedTokenError", <<0, 1>>, r.tok, FALSE, r.c)
        parsed(e) ==
            IF e.err # "ok"
            THEN Outcome(e.err, e.v, e.tok,
                         e.err \in {"TokenError", "InvalidTokenError"}, e.c)
            ELSE match(e, StrictRead(e.c, "evaluate"))
    IN parsed(calculator_expression(Context(TokenStream(s)), NoIntermediate))

(***************************************************************************)
(* The RPN lexer and evaluator: rpn.tokenizer.Tokenizer and rpn.evaluate.  *)
(***************************************************************************)
rpn_OPERATORS == {<<"+">>, <<"-">>, <<"*">>, <<"/">>}

\* the end of the match of [+\-*/] at offset i, or -1
rpn_OperatorEnd(s, i) == IF s[i + 1] \in {"+", "-", "*", "/"} THEN i + 1 ELSE -1

\* GRAMMAR tried at the non-whitespace offset i: the first alternative that
\* matches, in the order number, operator, invalid
rpn_GRAMMAR(s, i) ==
    LET match(typ, end) == [typ |-> typ, start |-> i, end |-> end]
        operator(end) ==
            IF end >= 0 THEN match("operator", end)
            ELSE match("invalid", InvalidEnd(s, i))
        number(end) ==
            IF end >= 0 THEN match("number", end) ELSE operator(rpn_OperatorEnd(s, i))
    IN number(FLOAT_PATTERN(s, i))

\* the next match GRAMMAR.finditer delivers when its search resumes at i
rpn_finditer(s, i) ==
    IF \A k \in i..(Len(s) - 1) : IsSpace(s[k + 1]) THEN NoMatch
    ELSE rpn_GRAMMAR(s, CHOOSE j \in i..(Len(s) - 1) :
                            ~IsSpace(s[j + 1]) /\ \A k \in i..(j - 1) : IsSpace(s[k + 1]))

\* the token a match yields
rpn_Tokenizer_yield(text, m) ==
    CASE m.typ = "number" -> Number(float(text), m.start, m.end)
      [] m.typ = "operator" /\ text \in rpn_OPERATORS -> Operator(text, m.start, m.end)
      [] OTHER -> Invalid(text, m.start, m.end)

\* the generator object self._tokenize(s) whose search resumes at offset
\* `at`: the tokens its remaining resumptions yield, in order
RECURSIVE rpn_Tokenizer_tokenize(_, _)
rpn_Tokenizer_tokenize(s, at) ==
    LET rest(m) ==
            IF m = NoMatch THEN <<>>
            ELSE <<rpn_Tokenizer_yield(Slice(s, m.start, m.end), m)>>
                     \o rpn_Tokenizer_tokenize(s, m.end)
    IN rest(rpn_finditer(s, at))

\* Tokenizer(expression): TokenStream.__init__
rpn_Tokenizer(s) == [expr |-> s, tokens |-> rpn_Tokenizer_tokenize(s, 0)]

\* TokenStream.__next__: the token returned (None: StopIteration) and the
\* stream afterwards
rpn_Tokenizer_next(st) ==
    IF st.tokens = <<>> THEN [tok |-> None, st |-> st]
    ELSE [tok |-> Head(st.tokens), st |-> [st EXCEPT !.tokens = Tail(@)]]

\* an operator applied with its operands exchanged
rpn_operate_swapped(operator, left, right) ==
    CASE operator = <<"+">> -> [err |-> "ok", v |-> Add(right, left)]
      [] operator = <<"-">> -> [err |-> "ok", v |-> Sub(right, left)]
      [] operator = <<"*">> -> [err |-> "ok", v |-> Mul(right, left)]
      [] operator = <<"/">> ->
           IF IsZero(left) THEN [err |-> "ZeroDivisionError", v |-> <<0, 1>>]
           ELSE [err |-> "ok", v |-> Quot(right, left)]

\* match operator: the value appended, or the exception of the division
rpn_operate(operator, left, right) ==
    CASE operator = <<"+">> -> [err |-> "ok", v |-> Add(left, right)]
      [] operator = <<"-">> -> [err |-> "ok", v |-> Sub(left, right)]
      [] operator = <<"*">> -> [err |-> "ok", v |-> Mul(left, right)]
      [] operator = <<"/">> ->
           IF IsZero(right) THEN [err |-> "ZeroDivisionError", v |-> <<0, 1>>]
           ELSE [err |-> "ok", v |-> Quot(left, right)]

\* the guard of case Operator(operator): len(values) >= 2
rpn_operands(deque) == Len(deque) >= 2

\* an Invalid token reported as any other unexpected token
rpn_invalid_unexpected(token) == FALSE

\* case Invalid()
rpn_invalid(token) == token.kind = "Invalid"

\* an iteration that passes over an operator short of operands
rpn_match_skips(deque, token) ==
    LET popped == SubSeq(deque, 1, Len(deque) - 2)
        appended(r) ==
            IF r.err # "ok" THEN [err |-> r.err, tok |-> None, values |-> popped]
            ELSE [err |-> "ok", tok |-> None, values |-> Append(popped, r.v)]
    IN CASE token.kind = "Number" ->
              [err |-> "ok", tok |-> None, values |-> Append(deque, token.num)]
         [] token.kind = "Operator" /\ rpn_operands(deque) ->
              appended(rpn_operate(token.sym, deque[Len(deque) - 1],
                                   deque[Len(deque)]))
         [] rpn_invalid(token) ->
              [err |-> "InvalidTokenError", tok |-> token, values |-> deque]
         [] OTHER -> [err |-> "ok", tok |-> None, values |-> deque]

\* one iteration of the loop, match token: the stack afterwards and err
\* ("ok", or the exception raised, with its token in tok)
rpn_match(deque, token) ==
    LET popped == SubSeq(deque, 1, Len(deque) - 2)
        appended(r) ==
            IF r.err # "ok" THEN [err |-> r.err, tok |-> None, values |-> popped]
            ELSE [err |-> "ok", tok |-> None, values |-> Append(popped, r.v)]
    IN CASE token.kind = "Number" ->
              [err |-> "ok", tok |-> None, values |-> Append(deque, token.num)]
         [] token.kind = "Operator" /\ rpn_operands(deque) ->
              appended(rpn_operate(token.sym, deque[Len(deque) - 1],
                                   deque[Len(deque)]))
         [] rpn_invalid(token) ->
              [err |-> "InvalidTokenError", tok |-> token, values |-> deque]
         [] OTHER -> [err |-> "UnexpectedTokenError", tok |-> token, values |-> deque]

\* a return of the top of the stack however many values it holds
rpn_return_top(deque) ==
    IF Len(deque) = 0
    THEN [err |-> "UnexpectedEndOfExpressionError", v |-> <<0, 1>>, values |-> deque]
    ELSE [err |-> "ok", v |-> deque[Len(deque)],
          values |-> SubSeq(deque, 1, Len(deque) - 1)]

\* after the loop: the check of len(values) and return values.pop()
rpn_return(deque) ==
    IF Len(deque) # 1
    THEN [err |-> "UnexpectedEndOfExpressionError", v |-> <<0, 1>>, values |-> deque]
    ELSE [err |-> "ok", v |-> deque[1], values |-> <<>>]

\* what a call of rpn.evaluate leaves: as Outcome, with the stream and the
\* stack of the call; log is the tokens the loop took
RpnOutcome(kind, v, tok, st, deque, log) ==
    [kind |-> kind, v |-> v, tok |-> tok, printed |-> FALSE, log |-> log,
     st |-> st, values |-> deque]

\* the loop `for token in Tokenizer(expression)` from the stream st with the
\* stack values, then the return
RECURSIVE rpn_loop(_, _, _)
rpn_loop(st, deque, log) ==
    LET returned(r) ==
            RpnOutcome(IF r.err = "ok" THEN "value" ELSE r.err, r.v, None, st,
                       r.values, log)
        matched(n, m) ==
            IF m.err # "ok"
            THEN RpnOutcome(m.err, <<0, 1>>, m.tok, n.st, m.values, Append(log, n.tok))
            ELSE rpn_loop(n.st, m.values, Append(log, n.tok))
        taken(n) ==
            IF n.tok = None THEN returned(rpn_return(deque))
            ELSE matched(n, rpn_match(deque, n.tok))
    IN taken(rpn_Tokenizer_next(st))

\* rpn.evaluate
rpn_evaluate(s) == rpn_loop(rpn_Tokenizer(s), <<>>, <<>>)

(***************************************************************************)
(* Inputs.                                                                 *)
(***************************************************************************)
Alphabet == {"0", "2", "3", ".", "+", "-", "*", "/", "^", "(", ")", " ", "&"}

\* every string of at most n characters
Strings(n) == UNION {[1..k -> Alphabet] : k \in 0..n}

\* the operands and the operators of the chains
Literals == {<<"2">>, <<"3">>}

ChainOperators == {<<"+">>, <<"-">>, <<"*">>, <<"/">>, <<"^">>}

Separators == {<<>>, <<" ">>}

\* pieces[1] sep pieces[2] sep ... pieces[n]
RECURSIVE Join(_, _)
Join(pieces, sep) ==
    IF Len(pieces) = 0 THEN <<>>
    ELSE IF Len(pieces) = 1 THEN pieces[1]
    ELSE pieces[1] \o sep \o Join(Tail(pieces), sep)

\* operand (operator operand)^k, joined with or without spaces
Chains(k) ==
    {Join([i \in 1..(2 * k + 1) |->
              IF i % 2 = 1 THEN operands[(i + 1) \div 2] ELSE operators[i \div 2]], sep) :
        operands \in [1..(k + 1) -> Literals],
        operators \in [1..k -> ChainOperators],
        sep \in Separators}

\* expressions with unary minus, parentheses and both spellings of the power
\* operator; N is an operand
Templates ==
    { <<"-", "(", "N", ")", "+", "N">>,
      <<"N", "*", "-", "(", "N", ")", "+", "N">>,
      <<"-", "(", "-N", ")">>,
      <<"-", "N", "*", "N", "+", "N">>,
      <<"N", "^", "-", "N", "+", "N">>,
      <<"N", "**", "N", "**", "N">>,
      <<"N", "**", "N", "^", "N">>,
      <<"N", "^", "N", "**", "N">>,
      <<"(", "N", "+", "(", "N", "*", "(", "N", "-", "N">>,
      <<"(", "(", "N", "+", "N", ")", "*", "N", ")", "N">> }

Chars(word) ==
    CASE word = "**" -> <<"*", "*">>
      [] OTHER -> <<word>>

\* the template with its operands, in order, taken from `operands`
RECURSIVE Fill(_, _)
Fill(template, operands) ==
    IF template = <<>> THEN <<>>
    ELSE IF Head(template) = "N"
    THEN <<Head(operands)>> \o Fill(Tail(template), Tail(operands))
    ELSE IF Head(template) = "-N"
    THEN <<<<"-">> \o Head(operands)>> \o Fill(Tail(template), Tail(operands))
    ELSE <<Chars(Head(template))>> \o Fill(Tail(template), operands)

Holes(template) == Cardinality({i \in 1..Len(template) : template[i] \in {"N", "-N"}})

Templated ==
    UNION {{Join(Fill(t, operands), <<" ">>) : operands \in [1..Holes(t) -> Literals]} :
              t \in Templates}

\* expressions of the tests: ")3 + 4(", "(3 + 4", "3 + 4 )", "3 + 4 & 10",
\* "3 + (4 * (5 - 2", "-3--4", "+3++3", "-3-4"
Examples ==
    { <<")", "3", " ", "+", " ", "4", "(">>,
      <<"(", "3", " ", "+", " ", "4">>,
      <<"3", " ", "+", " ", "4", " ", ")">>,
      <<"3", " ", "+", " ", "4", " ", "&", " ", "1", "0">>,
      <<"3", " ", "+", " ", "(", "4", " ", "*", " ", "(", "5", " ", "-", " ", "2">>,
      <<"-", "3", "-", "-", "4">>,
      <<"+", "3", "+", "+", "3">>,
      <<"-", "3", "-", "4">> }

\* an arithmetic error before an Invalid token: "2/0 &", "0^-2 &"
ErrorExamples ==
    { <<"2", "/", "0", " ", "&">>,
      <<"0", "^", "-", "2", " ", "&">> }

\* the expressions evaluate is called on
Inputs ==
    Strings(MaxLen) \cup UNION {Chains(k) : k \in 0..MaxOps} \cup Templated \cup Examples
        \cup ErrorExamples

NotCalled == [kind |-> "NotCalled"]

(***************************************************************************)
(* Iterating the infix lexer, as list(Tokenizer(expression)) does.         *)
(***************************************************************************)
\* an expression of the lexer's tests with runs of whitespace and a signed
\* number after a number: "  3   + 4   * 10 -5 / 2 **  2   "
SpacedExamples ==
    { <<" ", " ", "3", " ", " ", " ", "+", " ", "4", " ", " ", " ", "*", " ", "1", "0",
        " ", "-", "5", " ", "/", " ", "2", " ", "*", "*", " ", " ", "2", " ", " ", " ">> }

\* runs that begin with a character of no category and go on with digits
\* and operators: "&10", "a+3"
InvalidExamples == { <<"&", "1", "0">>, <<"a", "+", "3">> }

InitLex ==
    /\ expression \in Strings(MaxLen) \cup Examples \cup SpacedExamples \cup InvalidExamples
    /\ stream = Tokenizer(expression)
    /\ out = <<>>
    /\ stopped = FALSE
    /\ result = NotCalled
    /\ values = <<>>
    /\ callee = ""

\* next(stream) returns a token
LexNext ==
    /\ ~stopped
    /\ Tokenizer_next(stream).tok # None
    /\ stream' = Tokenizer_next(stream).st
    /\ out' = Append(out, Tokenizer_next(stream).tok)
    /\ UNCHANGED <<expression, stopped, result, values, callee>>

\* next(stream) raises StopIteration
LexStop ==
    /\ ~stopped
    /\ Tokenizer_next(stream).tok = None
    /\ stream' = Tokenizer_next(stream).st
    /\ stopped' = TRUE
    /\ UNCHANGED <<expression, out, result, values, callee>>

NextLex == LexNext \/ LexStop

SpecLex == InitLex /\ [][NextLex]_vars

(***************************************************************************)
(* Calling the package evaluate.                                           *)
(***************************************************************************)
Init ==
    /\ expression \in Inputs
    /\ stream = Tokenizer(expression)
    /\ out = <<>>
    /\ stopped = FALSE
    /\ result = NotCalled
    /\ values = <<>>
    /\ callee = ""

\* result = evaluate(expression), or the exception it raises
Evaluate ==
    /\ result = NotCalled
    /\ result' = evaluate(expression)
    /\ UNCHANGED <<expression, stream, out, stopped, values, callee>>

Next == Evaluate

Spec == Init /\ [][Next]_vars

(***************************************************************************)
(* Calling calculator.py's evaluate.                                       *)
(***************************************************************************)
\* result = evaluate(expression), or the exception it raises
CalculatorEvaluate ==
    /\ result = NotCalled
    /\ result' = calculator_evaluate(expression)
    /\ UNCHANGED <<expression, stream, out, stopped, values, callee>>

NextCalculator == CalculatorEvaluate

SpecCalculator == Init /\ [][NextCalculator]_vars

(***************************************************************************)
(* Running rpn.evaluate, one iteration of its loop at a time.  stream is   *)
(* the Tokenizer of the call, values its stack, out the tokens the loop    *)
(* has taken, stopped whether the loop has ended by StopIteration.         *)
(***************************************************************************)
RpnTokens ==
    {<<"2">>, <<"3">>, <<"0">>, <<"-", "3">>, <<"+">>, <<"-">>, <<"*">>, <<"/">>, <<"&">>}

\* at most n tokens, separated by one space
RpnWords(n) == UNION {{Join(w, <<" ">>) : w \in [1..k -> RpnTokens]} : k \in 0..n}

\* expressions of the tests: "2 3 + 4 *", "10 5 - 2 * 3 2 /", "4 2 1-",
\* "10 4 - *", "2 3 + a", "10 5 - 2 * bbbbb 3 2 /"
RpnExamples ==
    { <<"2", " ", "3", " ", "+", " ", "4", " ", "*">>,
      <<"1", "0", " ", "5", " ", "-", " ", "2", " ", "*", " ", "3", " ", "2", " ", "/">>,
      <<"4", " ", "2", " ", "1", "-">>,
      <<"1", "0", " ", "4", " ", "-", " ", "*">>,
      <<"2", " ", "3", " ", "+", " ", "a">>,
      <<"1", "0", " ", "5", " ", "-", " ", "2", " ", "*", " ", "b", "b", "b", "b", "b",
        " ", "3", " ", "2", " ", "/">> }

\* the expressions rpn.evaluate is called on
RpnInputs == Strings(MaxLen) \cup RpnWords(MaxOps) \cup RpnExamples

InitRpn ==
    /\ expression \in RpnInputs
    /\ stream = rpn_Tokenizer(expression)
    /\ out = <<>>
    /\ stopped = FALSE
    /\ result = NotCalled
    /\ values = <<>>
    /\ callee = "rpn"

\* an iteration of the loop that raises nothing
RpnMatch ==
    /\ result = NotCalled
    /\ rpn_Tokenizer_next(stream).tok # None
    /\ rpn_match(values, rpn_Tokenizer_next(stream).tok).err = "ok"
    /\ stream' = rpn_Tokenizer_next(stream).st
    /\ out' = Append(out, rpn_Tokenizer_next(stream).tok)
    /\ values' = rpn_match(values, rpn_Tokenizer_next(stream).tok).values
    /\ UNCHANGED <<expression, stopped, result, callee>>

\* an iteration of the loop that raises
RpnRaise ==
    /\ result = NotCalled
    /\ rpn_Tokenizer_next(stream).tok # None
    /\ rpn_match(values, rpn_Tokenizer_next(stream).tok).err # "ok"
    /\ stream' = rpn_Tokenizer_next(stream).st
    /\ out' = Append(out, rpn_Tokenizer_next(stream).tok)
    /\ values' = rpn_match(values, rpn_Tokenizer_next(stream).tok).values
    /\ result' = RpnOutcome(rpn_match(values, rpn_Tokenizer_next(stream).tok).err,
                            <<0, 1>>,
                            rpn_match(values, rpn_Tokenizer_next(stream).tok).tok,
                            stream', values', out')
    /\ UNCHANGED <<expression, stopped, callee>>

\* the stream is exhausted: the loop ends, and evaluate returns or raises
RpnReturn ==
    /\ result = NotCalled
    /\ rpn_Tokenizer_next(stream).tok = None
    /\ stopped' = TRUE
    /\ values' = rpn_return(values).values
    /\ result' = RpnOutcome(IF rpn_return(values).err = "ok" THEN "value"
                            ELSE rpn_return(values).err,
                            rpn_return(values).v, None, stream, values', out)
    /\ UNCHANGED <<expression, stream, out, callee>>

NextRpn == RpnMatch \/ RpnRaise \/ RpnReturn

SpecRpn == InitRpn /\ [][NextRpn]_vars

(***************************************************************************)
(* A client of the Tokenizer calling next and reinsert in any order.  out  *)
(* is the tokens next has returned, result the last call and its outcome.  *)
(***************************************************************************)
\* most tokens the client takes from the stream
MaxCalls == 4

\* the expressions the stream is built on
StreamInputs == UNION {Chains(k) : k \in 0..1} \cup Templated \cup Examples

\* a token that is not of the expression
Foreign == Number(<<7, 1>>, 0, 1)

\* the tokens the client may give back: the one returned last, any returned
\* before, or one it made up
Returnable == {out[i] : i \in 1..Len(out)} \cup {Foreign}

\* a call on the stream: which (kind), the token given to reinsert and the
\* token returned by next or carried by TokenError
StreamCall(kind, given, tok) == [kind |-> kind, given |-> given, tok |-> tok]

InitStream ==
    /\ expression \in StreamInputs
    /\ stream = Tokenizer(expression)
    /\ out = <<>>
    /\ stopped = FALSE
    /\ result = NotCalled
    /\ values = <<>>
    /\ callee = "Tokenizer"

\* next(stream) returns a token
StreamNext ==
    /\ Len(out) < MaxCalls
    /\ Tokenizer_next(stream).tok # None
    /\ stream' = Tokenizer_next(stream).st
    /\ out' = Append(out, Tokenizer_next(stream).tok)
    /\ result' = StreamCall("next", None, Tokenizer_next(stream).tok)
    /\ UNCHANGED <<expression, stopped, values, callee>>

\* next(stream) raises StopIteration
StreamStop ==
    /\ Tokenizer_next(stream).tok = None
    /\ stream' = Tokenizer_next(stream).st
    /\ stopped' = TRUE
    /\ result' = StreamCall("StopIteration", None, None)
    /\ UNCHANGED <<expression, out, values, callee>>

\* stream.reinsert(token) returns
StreamReinsert ==
    \E token \in Returnable :
        /\ Tokenizer_reinsert(stream, token).err = "ok"
        /\ stream' = Tokenizer_reinsert(stream, token).st
        /\ result' = StreamCall("reinsert", token, None)
        /\ UNCHANGED <<expression, out, stopped, values, callee>>

\* stream.reinsert(token) raises
StreamRefuse ==
    \E token \in Returnable :
        /\ Tokenizer_reinsert(stream, token).err # "ok"
        /\ stream' = Tokenizer_reinsert(stream, token).st
        /\ result' = StreamCall(Tokenizer_reinsert(stream, token).err, token,
                                Tokenizer_reinsert(stream, token).tok)
        /\ UNCHANGED <<expression, out, stopped, values, callee>>

NextStream == StreamNext \/ StreamStop \/ StreamReinsert \/ StreamRefuse

SpecStream == InitStream /\ [][NextStream]_vars

(***************************************************************************)
(* Calling the package evaluate and rpn.evaluate one call after another.   *)
(* expression and callee are the argument and the function of the last     *)
(* call and result what it left; out holds the call made before it.        *)
(* stream is the Tokenizer as the last call of the package evaluate left   *)
(* it and values the stack as the last call of rpn.evaluate left it: the   *)
(* objects a later call would find if anything of them were shared.        *)
(***************************************************************************)
\* the expressions of the calls, word by word: some parse, some fail in the
\* parser with a token pushed back, some leave values on the stack
CallLines ==
    { <<>>,
      <<"2">>,
      <<"2", "3">>,
      <<"2", "+", "3">>,
      <<"2", "3", "+">>,
      <<"2", "/", "0", "3">>,
      <<"2", "/", "0", "+", "3">>,
      <<"2", "**", "3", "3">>,
      <<"(", "2", "/", "0", ")">>,
      <<"2", "0", "/">>,
      <<"2", "+">>,
      <<"+">>,
      <<"2", "&">>,
      <<"2", "3", "&", "+">>,
      <<"2", "3", "0">>,
      <<"3", "+", "4", "&", "10">> }

\* the words of a line separated by one space
Spell(line) ==
    Join([i \in 1..Len(line) |->
            IF line[i] = "10" THEN <<"1", "0">> ELSE Chars(line[i])], <<" ">>)

CallInputs == {Spell(line) : line \in CallLines}

\* the record of a call: the function, its argument and what it left
Called(f, s, r) ==
    [callee |-> f, expression |-> s, kind |-> r.kind, v |-> r.v, tok |-> r.tok]

\* no call was made yet: no stream and no stack exist
InitCalls ==
    /\ expression = <<>>
    /\ stream = [expr |-> <<>>, tokens |-> <<>>, lookahead |-> None]
    /\ out = <<>>
    /\ stopped = FALSE
    /\ result = NotCalled
    /\ values = <<>>
    /\ callee = ""

\* the call made before the next one
Previous == IF result = NotCalled THEN <<>> ELSE <<Called(callee, expression, result)>>

\* calculator.evaluate(s)
CallEvaluate ==
    \E s \in CallInputs :
        /\ expression' = s
        /\ callee' = "calculator"
        /\ result' = evaluate(s)
        /\ stream' = result'.st
        /\ out' = Previous
        /\ UNCHANGED <<stopped, values>>

\* rpn.evaluate(s)
CallRpn ==
    \E s \in CallInputs :
        /\ expression' = s
        /\ callee' = "rpn"
        /\ result' = rpn_evaluate(s)
        /\ values' = result'.values
        /\ out' = Previous
        /\ UNCHANGED <<stopped, stream>>

NextCalls == CallEvaluate \/ CallRpn

SpecCalls == InitCalls /\ [][NextCalls]_vars

(***************************************************************************)
(* Iterating the strict stream, as list(TokenStream(expression)) does.     *)
(* out is the tokens delivered, stopped whether the iteration has ended,   *)
(* result the exception that ended it, if one did.                         *)
(***************************************************************************)
InitStrict ==
    /\ expression \in Strings(MaxLen) \cup Examples
    /\ stream = TokenStream(expression)
    /\ out = <<>>
    /\ stopped = FALSE
    /\ result = NotCalled
    /\ values = <<>>
    /\ callee = "TokenStream"

\* next(stream) returns a token
StrictNext ==
    /\ ~stopped
    /\ TokenStream_next(stream).err = "ok"
    /\ TokenStream_next(stream).tok # None
    /\ stream' = TokenStream_next(stream).st
    /\ out' = Append(out, TokenStream_next(stream).tok)
    /\ UNCHANGED <<expression, stopped, result, values, callee>>

\* next(stream) raises InvalidTokenError: the iteration ends with it
StrictRaise ==
    /\ ~stopped
    /\ TokenStream_next(stream).err # "ok"
    /\ stream' = TokenStream_next(stream).st
    /\ stopped' = TRUE
    /\ result' = [kind |-> TokenStream_next(stream).err,
                  tok |-> TokenStream_next(stream).tok]
    /\ UNCHANGED <<expression, out, values, callee>>

\* next(stream) raises StopIteration
StrictStop ==
    /\ ~stopped
    /\ TokenStream_next(stream).err = "ok"
    /\ TokenStream_next(stream).tok = None
    /\ stream' = TokenStream_next(stream).st
    /\ stopped' = TRUE
    /\ UNCHANGED <<expression, out, result, values, callee>>

NextStrict == StrictNext \/ StrictRaise \/ StrictStop

SpecStrict == InitStrict /\ [][NextStrict]_vars

(***************************************************************************)
(* Vocabulary of the properties.                                           *)
(***************************************************************************)
\* the call has ended
Done == result # NotCalled

\* the tokens of the expression, in stream order: those held by the stream
\* Init builds on it, which no step of Spec or SpecCalculator reads
Toks == stream.tokens

Word(sym) == IF sym = <<"*", "*">> THEN "**" ELSE sym[1]

\* the token sequence with "N" for each Number, the symbol for each operator
\* and parenthesis, "?" for each Invalid
Shape(toks) ==
    [i \in 1..Len(toks) |->
        CASE toks[i].kind = "Number" -> "N"
          [] toks[i].kind = "Invalid" -> "?"
          [] OTHER -> Word(toks[i].sym)]

\* Number (Op Number)* with every Op in syms
IsChain(toks, syms) ==
    /\ Len(toks) % 2 = 1
    /\ \A i \in 1..Len(toks) :
          IF i % 2 = 1 THEN toks[i].kind = "Number" /\ IsRepresented(toks[i].num)
          ELSE toks[i].kind = "Operator" /\ toks[i].sym \in syms

\* left sym right
Apply(sym, left, right) ==
    CASE sym = <<"+">> -> Add(left, right)
      [] sym = <<"-">> -> Sub(left, right)
      [] sym = <<"*">> -> Mul(left, right)
      [] sym = <<"/">> -> Quot(left, right)
      [] OTHER -> Pow(left, right)

\* ((n1 op1 n2) op2 n3) ... of a chain
RECURSIVE FoldLeft(_)
FoldLeft(toks) ==
    IF Len(toks) = 1 THEN toks[1].num
    ELSE Apply(toks[Len(toks) - 1].sym,
               FoldLeft(SubSeq(toks, 1, Len(toks) - 2)), toks[Len(toks)].num)

\* n1 op1 (n2 op2 (n3 ...)) of a chain
RECURSIVE FoldRight(_)
FoldRight(toks) ==
    IF Len(toks) = 1 THEN toks[1].num
    ELSE Apply(toks[2].sym, toks[1].num, FoldRight(SubSeq(toks, 3, Len(toks))))

\* no operand of the chain is divided by zero
NoZeroDivisor(toks) ==
    \A i \in 1..Len(toks) :
        (toks[i].kind = "Operator" /\ toks[i].sym = <<"/">>) => ~IsZero(toks[i + 1].num)

AdditiveOps == {<<"+">>, <<"-">>}

MultiplicativeOps == {<<"*">>, <<"/">>}

PowerOps == {<<"*", "*">>, <<"^">>}

(***************************************************************************)
(* C1.  In the package evaluator a flat chain of + and - evaluates left to *)
(* right: a - b - c to (a - b) - c, a - b + c to (a - b) + c, and likewise *)
(* for longer chains.                                                      *)
(***************************************************************************)
C1_LeftAssociative ==
    (Done /\ IsChain(Toks, AdditiveOps) /\ IsRepresented(FoldLeft(Toks)))
        => (result.kind = "value" /\ result.v = FoldLeft(Toks))

(***************************************************************************)
(* C2.  In the package evaluator a term takes any number of * and /,       *)
(* applied left to right: a * b * c evaluates to (a * b) * c and a / b / c *)
(* to (a / b) / c, and evaluate does not fail on the second operator.      *)
(***************************************************************************)
C2_TermChain ==
    (/\ Done
     /\ IsChain(Toks, MultiplicativeOps)
     /\ NoZeroDivisor(Toks)
     /\ IsRepresented(FoldLeft(Toks)))
        => (result.kind = "value" /\ result.v = FoldLeft(Toks))

(***************************************************************************)
(* C3.  In calculator.py's evaluator, every Number (Op Number)* with Op in *)
(* + - * / evaluates as the reference does: * and / bind tighter than +    *)
(* and -, and operators of one precedence group left to right.             *)
(***************************************************************************)
\* the last operator of the chain that is in syms, or 0
LastOperator(toks, syms) ==
    LET at == {i \in 1..Len(toks) : toks[i].kind = "Operator" /\ toks[i].sym \in syms}
    IN IF at = {} THEN 0 ELSE CHOOSE i \in at : \A j \in at : j <= i

\* a product: a chain of * and /, grouped to the left
RECURSIVE ReferenceTerm(_)
ReferenceTerm(toks) ==
    IF Len(toks) = 1 THEN [kind |-> "value", v |-> toks[1].num]
    ELSE LET left == ReferenceTerm(SubSeq(toks, 1, Len(toks) - 2))
             sym == toks[Len(toks) - 1].sym
             right == toks[Len(toks)].num
         IN IF left.kind # "value" THEN left
            ELSE IF sym = <<"/">> /\ IsZero(right)
            THEN [kind |-> "ZeroDivisionError", v |-> <<0, 1>>]
            ELSE [kind |-> "value", v |-> Apply(sym, left.v, right)]

\* a sum of products, grouped to the left
RECURSIVE ReferenceExpression(_)
ReferenceExpression(toks) ==
    LET k == LastOperator(toks, AdditiveOps)
        left == ReferenceExpression(SubSeq(toks, 1, k - 1))
        right == ReferenceTerm(SubSeq(toks, k + 1, Len(toks)))
    IN IF k = 0 THEN ReferenceTerm(toks)
       ELSE IF left.kind # "value" THEN left
       ELSE IF right.kind # "value" THEN right
       ELSE [kind |-> "value", v |-> Apply(toks[k].sym, left.v, right.v)]

C3_MatchesReference ==
    (/\ Done
     /\ IsChain(Toks, AdditiveOps \cup MultiplicativeOps)
     /\ IsRepresented(ReferenceExpression(Toks).v))
        => /\ result.kind = ReferenceExpression(Toks).kind
           /\ result.kind = "value" => result.v = ReferenceExpression(Toks).v

\* a chain where both the precedence and the grouping to the left decide
\* the value has been evaluated
C3_Witness ==
    /\ Done
    /\ IsChain(Toks, AdditiveOps \cup MultiplicativeOps)
    /\ Len(Toks) = 7
    /\ Shape(Toks) = <<"N", "-", "N", "*", "N", "-", "N">>
    /\ result.kind = "value"
    /\ result.v # FoldLeft(Toks)
    /\ result.v # FoldRight(Toks)

(***************************************************************************)
(* C4.  Exponentiation groups to the right, and ** and ^ are one operator: *)
(* a ** b ** c, with either spelling at either place, evaluates to         *)
(* a ** (b ** c); 2 ** 3 ** 2 is 512.                                      *)
(***************************************************************************)
\* no power of the right-grouped chain raises or leaves the model's floats
RECURSIVE PowersComputed(_)
PowersComputed(toks) ==
    \/ Len(toks) = 1
    \/ /\ PowersComputed(SubSeq(toks, 3, Len(toks)))
       /\ ~PowRaises(toks[1].num, FoldRight(SubSeq(toks, 3, Len(toks))))
       /\ IsRepresented(FoldRight(toks))

C4_RightAssociative ==
    (Done /\ IsChain(Toks, PowerOps) /\ Len(Toks) >= 5 /\ PowersComputed(Toks))
        => (result.kind = "value" /\ result.v = FoldRight(Toks))

\* 2 ** 3 ^ 2 has been evaluated to 512, which is not (2 ** 3) ** 2
C4_Witness ==
    /\ Done
    /\ Shape(Toks) = <<"N", "**", "N", "^", "N">>
    /\ <<Toks[1].num, Toks[3].num, Toks[5].num>> = << <<2, 1>>, <<3, 1>>, <<2, 1>> >>
    /\ result.kind = "value"
    /\ result.v = <<512, 1>>
    /\ result.v # FoldLeft(Toks)

(***************************************************************************)
(* C5.  An Operator - read where an operand is expected negates the whole  *)
(* expression that follows it, up to the enclosing ")" or the end of the   *)
(* input: - ( a ) + b is -(a + b), x * - ( a ) + b is x * (-(a + b)), and  *)
(* "--n" and "-(-n)" are n.                                                *)
(***************************************************************************)
\* what follows the first token
AfterFirst == Slice(expression, Toks[1].end, Len(expression))

\* the text of token t without its sign
Unsigned(t) ==
    Slice(expression, IF IsSign(expression[t.start + 1]) THEN t.start + 1 ELSE t.start,
          t.end)

RECURSIVE MatchesFrom(_, _)
MatchesFrom(s, i) ==
    IF finditer(s, i) = NoMatch THEN <<>>
    ELSE <<finditer(s, i)>> \o MatchesFrom(s, finditer(s, i).end)

Matches == MatchesFrom(expression, 0)

\* match k is a number that begins with a sign
SignedNumber(k) ==
    Matches[k].typ = "number" /\ IsSign(expression[Matches[k].start + 1])

\* the match before match k was a number
AfterNumber(k) == k > 1 /\ Matches[k - 1].typ = "number"

\* the tokens emitted for the characters of [start, end)
Emitted(start, end) == SelectSeq(out, LAMBDA t : start <= t.start /\ t.end <= end)

C6_SignedSplit ==
    stopped =>
        \A k \in 1..Len(Matches) :
            SignedNumber(k) =>
                LET s == Matches[k].start
                    e == Matches[k].end
                IN IF AfterNumber(k)
                   THEN Emitted(s, e) =
                            <<Operator(<<expression[s + 1]>>, s, s + 1),
                              Number(float(Slice(expression, s + 1, e)), s + 1, e)>>
                   ELSE Emitted(s, e) = <<Number(float(Slice(expression, s, e)), s, e)>>

\* an input lexed to its end where one signed number was split and another
\* was not
C6_Witness ==
    /\ stopped
    /\ \E k \in 1..Len(Matches) :
          SignedNumber(k) /\ AfterNumber(k) /\ Len(Emitted(Matches[k].start, Matches[k].end)) = 2
    /\ \E k \in 1..Len(Matches) :
          /\ SignedNumber(k) /\ ~AfterNumber(k)
          /\ Len(Emitted(Matches[k].start, Matches[k].end)) = 1

(***************************************************************************)
(* C7.  The token sequence of the infix lexer never has two consecutive    *)
(* Number tokens.                                                          *)
(***************************************************************************)
\* out[i] and out[i + 1] are both Numbers
AdjacentNumbers(i) == out[i].kind = "Number" /\ out[i + 1].kind = "Number"

C7_NoAdjacentNumbers == \A i \in 1..(Len(out) - 1) : ~AdjacentNumbers(i)

\* C7, as the lexer has it: a Number that directly follows a Number never
\* begins with a sign; two consecutive Numbers come from an unsigned
\* numeric match after a numeric match.
C7_NoSignedNumberAfterNumber ==
    \A i \in 1..(Len(out) - 1) :
        AdjacentNumbers(i) =>
            /\ ~IsSign(expression[out[i + 1].start + 1])
            /\ out[i].end <= out[i + 1].start

\* two consecutive Numbers have been emitted
C7_Witness ==
    \E i \in 1..(Len(out) - 1) :
        AdjacentNumbers(i) /\ IsDigit(expression[out[i + 1].start + 1])

(***************************************************************************)
(* The calls evaluate made on its stream.                                  *)
(***************************************************************************)
\* the next(tokens, None) calls made at `site`
Reads(site) ==
    {i \in DOMAIN result.log : result.log[i].op = "next" /\ result.log[i].site = site}

\* how many tokens the stream had given out, and not taken back, before
\* call i
RECURSIVE Consumed(_)
Consumed(i) ==
    IF i = 1 THEN 0
    ELSE Consumed(i - 1) +
         (CASE result.log[i - 1].op = "reinsert" -> -1
            [] result.log[i - 1].tok = None -> 0
            [] OTHER -> 1)

\* how many "(" are open before token n of toks
RECURSIVE Depth(_, _)
Depth(toks, n) ==
    IF n <= 1 THEN 0
    ELSE Depth(toks, n - 1) +
         (CASE IsParenthesis(toks[n - 1], <<"(">>) -> 1
            [] IsParenthesis(toks[n - 1], <<")">>) -> -1
            [] OTHER -> 0)

\* a token that can begin an operand
BeginsOperand(tok) ==
    \/ tok.kind = "Number"
    \/ tok.kind = "Operator" /\ tok.sym = <<"-">>
    \/ tok.kind = "Parenthesis" /\ tok.sym = <<"(">>

C9_LeftoverToken ==
    Done =>
      /\ \A i \in Reads("evaluate") :
            (result.log[i].tok # None /\ result.log[i].tok.kind # "Invalid")
                => /\ result.kind = "UnexpectedTokenError"
                   /\ result.tok = result.log[i].tok
                   /\ result.tok = Toks[Consumed(i) + 1]
      /\ \A n \in 1..(Len(Toks) - 1) :
            (/\ IsChain(SubSeq(Toks, 1, n), AdditiveOps)
             /\ Toks[n + 1].kind \in {"Number", "Parenthesis"})
                => /\ result.kind = "UnexpectedTokenError"
                   /\ result.tok = Toks[n + 1]

\* N + N ) has been evaluated: the ")" is carried
C9_Witness ==
    /\ Done
    /\ Shape(Toks) = <<"N", "+", "N", ")">>
    /\ \E i \in Reads("evaluate") : result.log[i].tok = Toks[4]
    /\ result.kind = "UnexpectedTokenError"
    /\ result.tok = Toks[4]

(***************************************************************************)
(* C10.  When the token the package evaluator reads where an operand is    *)
(* required is not a Number, the Operator "-" or "(", or the token it      *)
(* reads where a closing ")" is required is not ")", evaluate raises       *)
(* UnexpectedTokenError carrying that token: for ")3 + 4(" the ")" over    *)
(* [0, 1).                                                                 *)
(***************************************************************************)
C10_UnexpectedToken ==
    Done =>
      /\ \A i \in Reads("_base") :
            (result.log[i].tok # None /\ ~BeginsOperand(result.log[i].tok))
                => /\ result.kind = "UnexpectedTokenError"
                   /\ result.tok = result.log[i].tok
      /\ \A i \in Reads("_base)") :
            (result.log[i].tok # None /\ ~IsParenthesis(result.log[i].tok, <<")">>))
                => /\ result.kind = "UnexpectedTokenError"
                   /\ result.tok = result.log[i].tok
      /\ (Toks # <<>> /\ ~BeginsOperand(Toks[1]))
            => /\ result.kind = "UnexpectedTokenError"
               /\ result.tok = Toks[1]
      /\ (/\ Len(Toks) >= 3
          /\ IsParenthesis(Toks[1], <<"(">>)
          /\ Toks[2].kind = "Number"
          /\ Toks[3].kind # "Operator"
          /\ ~IsParenthesis(Toks[3], <<")">>))
            => /\ result.kind = "UnexpectedTokenError"
               /\ result.tok = Toks[3]
      /\ expression = <<")", "3", " ", "+", " ", "4", "(">>
            => /\ result.kind = "UnexpectedTokenError"
               /\ result.tok = Parenthesis(<<")">>, 0, 1)

\* ")3 + 4(" has been evaluated: the ")" read as an operand is carried
C10_Witness ==
    /\ Done
    /\ expression = <<")", "3", " ", "+", " ", "4", "(">>
    /\ \E i \in Reads("_base") : result.log[i].tok = Parenthesis(<<")">>, 0, 1)
    /\ result.kind = "UnexpectedTokenError"
    /\ result.tok.start = 0
    /\ result.tok.end = 1

(***************************************************************************)
(* C11.  When the first token left after a complete top-level expression   *)
(* is Invalid, the package evaluate raises InvalidTokenError carrying that *)
(* token: its value is the offending text and its span [start, end) is the *)
(* 0-based offsets of that text in the input.  For "3 + 4 & 10" the token  *)
(* is Invalid("&", 6, 7).                                                  *)
(***************************************************************************)
C11_InvalidToken ==
    Done =>
      /\ \A i \in Reads("evaluate") :
            result.log[i].tok.kind = "Invalid"
                => /\ result.kind = "InvalidTokenError"
                   /\ result.printed
                   /\ result.tok = result.log[i].tok
                   /\ result.tok = Toks[Consumed(i) + 1]
                   /\ 0 <= result.tok.start /\ result.tok.start < result.tok.end
                   /\ result.tok.end <= Len(expression)
                   /\ result.tok.sym = Slice(expression, result.tok.start, result.tok.end)
                   /\ \A k \in result.tok.start..(result.tok.end - 1) :
                         ~IsSpace(expression[k + 1])
      /\ expression = <<"3", " ", "+", " ", "4", " ", "&", " ", "1", "0">>
            => /\ result.kind = "InvalidTokenError"
               /\ result.tok = Invalid(<<"&">>, 6, 7)

\* "3 + 4 & 10" has been evaluated: the "&" left after 3 + 4 is carried
C11_Witness ==
    /\ Done
    /\ expression = <<"3", " ", "+", " ", "4", " ", "&", " ", "1", "0">>
    /\ \E i \in Reads("evaluate") : result.log[i].tok.kind = "Invalid"
    /\ result.kind = "InvalidTokenError"
    /\ result.tok.start = 6
    /\ result.tok.end = 7

(***************************************************************************)
(* Vocabulary of the RPN properties.                                       *)
(***************************************************************************)
\* the tokens of the expression, in stream order: those the loop has taken,
\* then those the stream still holds
RpnToks == out \o stream.tokens

\* the loop takes a token in this step
RpnTakes == Len(out') = Len(out) + 1

\* the token the loop takes in this step
RpnTaken == out'[Len(out')]

\* the call ends in this step
RpnEnds == result = NotCalled /\ result' # NotCalled

C13_RpnInsufficient ==
    [][(RpnTakes /\ RpnTaken.kind = "Operator" /\ Len(values) < 2)
            => /\ result'.kind = "UnexpectedTokenError"
               /\ result'.tok = RpnTaken
               /\ result'.tok = RpnToks[Len(out')]
               /\ result'.tok.sym = Slice(expression, RpnTaken.start, RpnTaken.end)
               /\ values' = values
               /\ result'.values = values
      ]_vars

\* an operator met with one value on the stack has been refused: the value
\* is still on the stack
C13_Witness ==
    /\ Done
    /\ result.kind = "UnexpectedTokenError"
    /\ result.tok.kind = "Operator"
    /\ result.tok = out[Len(out)]
    /\ Len(values) = 1

(***************************************************************************)
(* C14.  In the RPN evaluator, when the loop reaches an Invalid token,     *)
(* evaluate raises InvalidTokenError carrying that token whatever the      *)
(* stack holds, and no token after it is taken from the stream.            *)
(***************************************************************************)
C14_RpnInvalid ==
    [][/\ (RpnTakes /\ RpnTaken.kind = "Invalid")
            => /\ result'.kind = "InvalidTokenError"
               /\ result'.tok = RpnTaken
               /\ result'.tok = RpnToks[Len(out')]
               /\ result'.tok.sym = Slice(expression, RpnTaken.start, RpnTaken.end)
               /\ values' = values
               /\ \A i \in 1..Len(out) : out[i].kind # "Invalid"
       /\ result # NotCalled => (out' = out /\ stream' = stream)
      ]_vars

\* an Invalid token met with values on the stack has been reported, and the
\* tokens after it are still in the stream
C14_Witness ==
    /\ Done
    /\ result.kind = "InvalidTokenError"
    /\ result.tok = out[Len(out)]
    /\ Len(values) >= 1
    /\ stream.tokens # <<>>

(***************************************************************************)
(* C15.  In the RPN evaluator, once every token has been processed without *)
(* failure, evaluate returns the single value of the stack if it holds     *)
(* exactly one, and raises UnexpectedEndOfExpressionError if it holds none *)
(* (an empty or whitespace-only input included) or more than one.          *)
(***************************************************************************)
C15_RpnEnd ==
    [][/\ (~stopped /\ stopped')
            => /\ stream.tokens = <<>>
               /\ out = RpnToks
               /\ Len(values) = 1
                    => /\ result'.kind = "value"
                       /\ result'.v = values[1]
                       /\ values' = <<>>
               /\ Len(values) # 1
                    => /\ result'.kind = "UnexpectedEndOfExpressionError"
                       /\ values' = values
       /\ (RpnEnds /\ \A k \in 1..Len(expression) : IsSpace(expression[k]))
            => result'.kind = "UnexpectedEndOfExpressionError"
       /\ (RpnEnds /\ result'.kind = "value") => (stopped' /\ Len(values) = 1)
      ]_vars

\* every token was processed and more than one value is left
C15_Witness ==
    /\ Done
    /\ stopped
    /\ out # <<>>
    /\ \E i \in 1..Len(out) : out[i].kind = "Operator"
    /\ Len(values) >= 2
    /\ result.kind = "UnexpectedEndOfExpressionError"

(***************************************************************************)
(* Vocabulary of the stream properties.                                    *)
(***************************************************************************)
\* this step is a call of next
StepNext == result'.kind \in {"next", "StopIteration"}

\* this step is a call of reinsert
StepReinsert == result'.kind \in {"reinsert", "TokenError"}

\* the tokens n calls of next observe on the stream st, up to StopIteration
RECURSIVE Observed(_, _)
Observed(st, n) ==
    IF n = 0 \/ Tokenizer_next(st).tok = None THEN <<>>
    ELSE <<Tokenizer_next(st).tok>> \o Observed(Tokenizer_next(st).st, n - 1)

\* calls enough to exhaust the stream after a reinsert
Exhausting == Len(stream.tokens) + 2

(***************************************************************************)
(* C16.  After reinsert(t) on an empty slot the next call of next returns  *)
(* t, empties the slot and does not advance the underlying sequence, and   *)
(* the call after that returns the token the sequence would have produced: *)
(* next followed by reinsert of the token returned leaves the tokens       *)
(* observed afterwards unchanged.                                          *)
(***************************************************************************)
C16_Pushback ==
    [][/\ (StepReinsert /\ stream.lookahead = None)
            => /\ result'.kind = "reinsert"
               /\ stream'.lookahead = result'.given
               /\ stream'.tokens = stream.tokens
               /\ Observed(stream', Exhausting)
                     = <<result'.given>> \o Observed(stream, Exhausting)
       /\ (StepNext /\ stream.lookahead # None)
            => /\ result'.kind = "next"
               /\ result'.tok = stream.lookahead
               /\ stream'.lookahead = None
               /\ stream'.tokens = stream.tokens
       /\ (StepNext /\ stream.lookahead = None /\ stream.tokens # <<>>)
            => /\ result'.kind = "next"
               /\ result'.tok = Head(stream.tokens)
               /\ stream'.tokens = Tail(stream.tokens)
               /\ stream'.lookahead = None
       /\ (StepNext /\ stream.lookahead = None /\ stream.tokens = <<>>)
            => result'.kind = "StopIteration"
       /\ (/\ StepReinsert
           /\ result.kind = "next"
           /\ result'.given = result.tok)
            => /\ result'.kind = "reinsert"
               /\ Observed(stream', Exhausting)
                     = <<result.tok>> \o Observed(stream, Exhausting)
               /\ Tokenizer_next(stream').tok = result.tok
               /\ Tokenizer_next(stream').st = stream
      ]_vars

\* the first token was taken, given back, taken again, and then the second
\* token of the expression was taken
C16_Witness ==
    /\ Len(out) = 3
    /\ out[1] = out[2]
    /\ out[1] = Tokens(expression)[1]
    /\ out[3] = Tokens(expression)[2]
    /\ out[3] # out[1]
    /\ result.kind = "next"
    /\ stream.lookahead = None

(***************************************************************************)
(* C17.  reinsert(token) on a stream whose slot is occupied raises         *)
(* TokenError carrying the token already buffered, and leaves that token   *)
(* and the position of the underlying sequence unchanged; a reinsert       *)
(* succeeds only on an empty slot, so the slot never holds more than one   *)
(* token.                                                                  *)
(***************************************************************************)
C17_SingleSlot ==
    [][/\ (StepReinsert /\ stream.lookahead # None)
            => /\ result'.kind = "TokenError"
               /\ result'.tok = stream.lookahead
               /\ stream'.lookahead = stream.lookahead
               /\ stream'.tokens = stream.tokens
               /\ Drain(stream') = Drain(stream)
       /\ (StepReinsert /\ result'.kind = "reinsert")
            => /\ stream.lookahead = None
               /\ Len(Drain(stream')) = Len(Drain(stream)) + 1
       /\ StepReinsert => out' = out
      ]_vars

\* a reinsert of another token was refused with the buffered token, which
\* is still buffered
C17_Witness ==
    /\ result.kind = "TokenError"
    /\ stream.lookahead # None
    /\ result.tok = stream.lookahead
    /\ result.given # stream.lookahead

(***************************************************************************)
(* The single slot during evaluate.                                        *)
(***************************************************************************)
\* the positions of the log of the call at which reinsert was called
Reinserts == {i \in 1..Len(result.log) : result.log[i].op = "reinsert"}

\* C18: during a call of the package evaluate no reinsert is made while the
\* slot is occupied: every reinsert recorded in the log of the call found the
\* slot empty, was made by _factor, _term or _expression with the token that
\* the same function had just read, and is followed, if any call on the stream
\* follows it, by a next that returns the token reinserted; so no two
\* reinserts are made without a next between them and the call never ends
\* with the TokenError of reinsert.
C18_SlotNeverOccupied ==
    Done =>
        /\ result.kind # "TokenError"
        /\ \A i \in Reinserts :
              /\ ~result.log[i].full
              /\ result.log[i].site \in {"_factor", "_term", "_expression"}
              /\ i > 1
              /\ result.log[i - 1].op = "next"
              /\ result.log[i - 1].site = result.log[i].site
              /\ result.log[i - 1].tok = result.log[i].tok
              /\ i < Len(result.log) =>
                    /\ result.log[i + 1].op = "next"
                    /\ result.log[i + 1].tok = result.log[i].tok
        /\ \A i, j \in Reinserts :
              i < j => \E k \in (i + 1)..(j - 1) : result.log[k].op = "next"

\* a call in which _factor, _term and _expression each pushed a token back,
\* the same token one after the other
C18_Witness ==
    /\ Done
    /\ \E i, j, k \in Reinserts :
          /\ i < j /\ j < k
          /\ result.log[i].site = "_factor"
          /\ result.log[j].site = "_term"
          /\ result.log[k].site = "_expression"
          /\ result.log[i].tok = result.log[j].tok
          /\ result.log[j].tok = result.log[k].tok

(***************************************************************************)
(* Successive calls.                                                       *)
(***************************************************************************)
\* the call before the last was of the same function on the same string
Repeated ==
    /\ Len(out) = 1
    /\ out[1].callee = callee
    /\ out[1].expression = expression

\* the Number tokens among the tokens a call of rpn.evaluate took
NumbersTaken == SelectSeq(result.log, LAMBDA t : t.kind = "Number")

C19_WitnessRpn ==
    /\ Repeated
    /\ callee = "rpn"
    /\ result.kind \in {"UnexpectedEndOfExpressionError", "InvalidTokenError",
                        "UnexpectedTokenError"}
    /\ values # <<>>
    /\ stream.lookahead # None

(***************************************************************************)
(* Active calls.                                                           *)
(***************************************************************************)
\* the most calls active during evaluate("2+3"), a chain of one operator
\* without parentheses and without exponents
OneOperatorPeak == evaluate(<<"2", "+", "3">>).peak

\* C20: the number of calls of _expression, _term, _factor and _base active
\* at one moment of a call of evaluate does not grow with the number of +
\* and - of a flat chain: on a chain of Numbers separated by + and -, without
\* parentheses and without exponents, it is at most what it is on a chain of
\* one operator.
C20_FlatChainDepth ==
    (Done /\ IsChain(Toks, AdditiveOps)) => result.peak <= OneOperatorPeak

(***************************************************************************)
(* Console output.                                                         *)
(***************************************************************************)
\* C21: the infix evaluate performs no console output on any input: whether
\* the call returns a value or raises, nothing was printed.
C21_NoConsoleOutput == Done => ~result.printed

(***************************************************************************)
(* The strict and the tolerant policy for an invalid run.                  *)
(***************************************************************************)
\* list(Tokenizer(expression)): what the tolerant lexer of the package
\* yields for the same input; it yields and never raises
Tolerant == Tokenizer_tokens(expression, Generator)

\* the position in toks of the first Invalid token, 0 when it has none
FirstInvalidIn(toks) ==
    IF \E i \in 1..Len(toks) : toks[i].kind = "Invalid"
    THEN CHOOSE i \in 1..Len(toks) :
            /\ toks[i].kind = "Invalid"
            /\ \A j \in 1..(i - 1) : toks[j].kind # "Invalid"
    ELSE 0

FirstInvalid == FirstInvalidIn(Tolerant)

\* the iteration of the strict stream, as far as it has come, against the
\* tokens tol of the tolerant lexer, whose first Invalid token is at first
StrictAgrees(tol, first, next) ==
    /\ Len(out) <= Len(tol)
    /\ out = SubSeq(tol, 1, Len(out))
    /\ \A i \in 1..Len(out) : out[i].kind # "Invalid"
    /\ (first # 0 /\ ~stopped /\ Len(out) = first - 1) =>
          /\ next.err = "InvalidTokenError"
          /\ next.tok = tol[first]
    /\ (stopped /\ result # NotCalled) =>
          /\ result.kind = "InvalidTokenError"
          /\ first # 0
          /\ Len(out) = first - 1
          /\ result.tok = tol[first]
          /\ result.tok.kind = "Invalid"
          /\ result.tok.sym = Slice(expression, result.tok.start, result.tok.end)
          /\ next.tok = None
          /\ next.err = "ok"
    /\ (stopped /\ result = NotCalled) => (first = 0 /\ out = tol)
    /\ first # 0 => Len(out) < first

InfixTokens == out \o stream.tokens

\* list(rpn Tokenizer(expression))
RpnLexed == rpn_Tokenizer_tokenize(expression, 0)

\* the tokens lie inside the string s, none is empty, each starts at or
\* after the end of the one before it, and a character of s that no token
\* covers is whitespace
WellSpanned(toks, s) ==
    /\ \A i \in 1..Len(toks) :
          /\ 0 <= toks[i].start
          /\ toks[i].start < toks[i].end
          /\ toks[i].end <= Len(s)
    /\ \A i \in 1..(Len(toks) - 1) : toks[i + 1].start >= toks[i].end
    /\ \A k \in 0..(Len(s) - 1) :
          (\A i \in 1..Len(toks) : ~(toks[i].start <= k /\ k < toks[i].end))
              => IsSpace(s[k + 1])

\* the Operator at position i of the infix tokens is the sign split from
\* match k, a signed number after a number
SplitAt(i, k) ==
    /\ SignedNumber(k)
    /\ AfterNumber(k)
    /\ InfixTokens[i].kind = "Operator"
    /\ InfixTokens[i].start = Matches[k].start

\* for every match of ms that is a signed number after a number, toks has
\* the Operator of the sign and, exactly adjacent, the Number of the rest
SplitAdjacent(ms, toks) ==
    \A k \in 2..Len(ms) :
        (/\ ms[k].typ = "number"
         /\ IsSign(expression[ms[k].start + 1])
         /\ ms[k - 1].typ = "number") =>
            \E i \in 1..(Len(toks) - 1) :
                /\ toks[i].kind = "Operator"
                /\ toks[i].start = ms[k].start
                /\ toks[i].end = toks[i].start + 1
                /\ toks[i + 1].kind = "Number"
                /\ toks[i + 1].start = toks[i].end
                /\ toks[i + 1].end = ms[k].end

\* C23: every token of the infix lexer and of the RPN lexer for an input of
\* length n has 0 <= start < end <= n; the tokens are emitted in increasing
\* order of span without overlap; the Operator and the Number of a split
\* signed number are exactly adjacent and together cover the match; every
\* character that no token covers is whitespace.  No token has end < start.
C23_Spans ==
    /\ WellSpanned(InfixTokens, expression)
    /\ WellSpanned(RpnLexed, expression)
    /\ \A i \in 1..Len(out) : i = 1 \/ out[i].start >= out[i - 1].end
    /\ SplitAdjacent(Matches, InfixTokens)

\* an input with whitespace that no token covers, lexed to its end, in
\* which a signed number was split
C23_Witness ==
    /\ stopped
    /\ \E k \in 0..(Len(expression) - 1) :
          /\ IsSpace(expression[k + 1])
          /\ \A i \in 1..Len(out) : ~(out[i].start <= k /\ k < out[i].end)
    /\ \E i \in 1..Len(out), k \in 1..Len(Matches) : SplitAt(i, k)

(***************************************************************************)
(* Invalid runs.                                                           *)
(***************************************************************************)
\* t covers a maximal run of non-whitespace of the expression and carries
\* its text
CoversRun(t) ==
    /\ \A k \in t.start..(t.end - 1) : ~IsSpace(expression[k + 1])
    /\ (t.end = Len(expression) \/ IsSpace(expression[t.end + 1]))
    /\ t.sym = Slice(expression, t.start, t.end)

\* C24: an Invalid token of the infix lexer or of the RPN lexer starts at a
\* non-whitespace character where no number, operator or parenthesis match
\* begins, and extends to the next whitespace character or to the end of
\* the input, whatever digits, operators or parentheses the run holds; its
\* value is the text of the run.  "&10" and "a+3" are one Invalid token of
\* three characters each.
C24_InvalidRun ==
    /\ \A i \in 1..Len(InfixTokens) :
          InfixTokens[i].kind = "Invalid" =>
              /\ CoversRun(InfixTokens[i])
              /\ FLOAT_PATTERN(expression, InfixTokens[i].start) < 0
              /\ OperatorEnd(expression, InfixTokens[i].start) < 0
              /\ ParenthesisEnd(expression, InfixTokens[i].start) < 0
    /\ \A i \in 1..Len(RpnLexed) :
          RpnLexed[i].kind = "Invalid" =>
              /\ CoversRun(RpnLexed[i])
              /\ FLOAT_PATTERN(expression, RpnLexed[i].start) < 0
              /\ rpn_OperatorEnd(expression, RpnLexed[i].start) < 0
    /\ expression \in InvalidExamples =>
          /\ InfixTokens = <<Invalid(expression, 0, 3)>>
          /\ RpnLexed = <<Invalid(expression, 0, 3)>>

\* "&10" or "a+3" lexed to its end: one Invalid token was delivered, with a
\* digit inside its run
C24_Witness ==
    /\ stopped
    /\ expression \in InvalidExamples
    /\ Len(out) = 1
    /\ out[1].kind = "Invalid"
    /\ out[1].end - out[1].start = 3
    /\ \E k \in 1..3 : IsDigit(expression[k])

(***************************************************************************)
(* Every token is consumed or reported.                                    *)
(***************************************************************************)
\* the lexer produced an Invalid token for the expression
HasInvalid == \E i \in 1..Len(Toks) : Toks[i].kind = "Invalid"

\* the call failed with a token error
TokenFailure == result.kind \in {"InvalidTokenError", "UnexpectedTokenError"}

\* a value is returned only when the grammar has consumed every token
ValueConsumesAll ==
    (Done /\ result.kind = "value") =>
        /\ Consumed(Len(result.log) + 1) = Len(Toks)
        /\ ~HasInvalid

\* the token a token error carries is the first the grammar could not
\* accept: it is a token of the lexer, no token after it was read, and the
\* expression cut before it does not fail with a token error
CarriesFirstUnaccepted ==
    (Done /\ TokenFailure) =>
        \E p \in 1..Len(Toks) :
            /\ result.tok = Toks[p]
            /\ \A i \in 1..Len(result.log) :
                  result.log[i].tok # None /\ result.log[i].tok.start <= Toks[p].start
            /\ evaluate(Slice(expression, 0, Toks[p].start)).kind
                  \in {"value", "UnexpectedEndOfExpressionError"}

\* an expression with an Invalid token fails with a token error (a call
\* that ends in a power the model does not compute is left out)
InvalidFailsWithTokenError ==
    (Done /\ HasInvalid /\ result.kind # "Unrepresented") => TokenFailure

\* C25: the package evaluate returns a value only if the grammar consumed
\* every token of the lexer; when the token sequence holds an Invalid token
\* anywhere the call fails with InvalidTokenError or UnexpectedTokenError and
\* returns no number; and the token a token error carries is the first
\* token, in stream order, that the grammar could not accept.
C25_AllConsumed ==
    /\ ValueConsumesAll
    /\ InvalidFailsWithTokenError
    /\ CarriesFirstUnaccepted

(***************************************************************************)
(* The size of the RPN stack.                                              *)
(***************************************************************************)
\* the Number tokens of toks minus its Operator tokens
RECURSIVE Surplus(_)
Surplus(toks) ==
    IF toks = <<>> THEN 0
    ELSE Surplus(SubSeq(toks, 1, Len(toks) - 1)) +
         (CASE toks[Len(toks)].kind = "Number" -> 1
            [] toks[Len(toks)].kind = "Operator" -> -1
            [] OTHER -> 0)

\* while no token has failed, the stack holds as many values as Numbers
\* minus Operators were taken, at least one once a token was taken
StackIsSurplus ==
    result = NotCalled =>
        /\ Len(values) = Surplus(out)
        /\ out # <<>> => Len(values) >= 1

\* no Invalid token, two operands or more before every Operator, and one
\* Number more than Operators in all
WellFormedRpn(toks) ==
    /\ \A i \in 1..Len(toks) : toks[i].kind # "Invalid"
    /\ \A i \in 1..Len(toks) :
          toks[i].kind = "Operator" => Surplus(SubSeq(toks, 1, i - 1)) >= 2
    /\ Surplus(toks) = 1

\* the call returns a value exactly for the well-formed token sequences
ValueIffWellFormed == Done => (result.kind = "value" <=> WellFormedRpn(RpnToks))

\* C26: in rpn.evaluate, after each token processed without failure the
\* size of the stack is the number of Number tokens seen minus the number of
\* Operator tokens seen, and at least 1; evaluate returns a value if and
\* only if the token sequence has no Invalid token, every Operator follows a
\* prefix with at least two more Numbers than Operators, and there is
\* exactly one Number more than Operators.
C26_StackSize ==
    /\ StackIsSurplus
    /\ ValueIffWellFormed

====
